---- MODULE Spec2Model ----
(***************************************************************************)
(* TritonOA: matched-field processor (tritonoa/sp/mfp.py), solver          *)
(* invocation (tritonoa/at/models/model.py, kraken/kraken.py, env/env.py)  *)
(* and the binary mode-file reader (tritonoa/at/models/kraken/modes.py).   *)
(*                                                                         *)
(* The specifications of the module:                                       *)
(*   Spec      - MatchedFieldProcessor.evaluate and its thread pool        *)
(*   SpecRun   - concurrent KrakenModel.run invocations (cwd, titles)      *)
(*   SpecModes - Modes.read_modes, record by record                        *)
(*   SpecReceiver - construction of a Receiver (tritonoa/at/env/array.py)  *)
(*   SpecAverage, SpecBeamformer, SpecCovariance - average_covariance,     *)
(*                  beamformer and get_covariance (tritonoa/sp)            *)
(*   SpecParams - the parameter dictionaries evaluate hands to the runner  *)
(***************************************************************************)
EXTENDS Integers, Sequences, FiniteSets, TLC

VARIABLES
    \* ---- MatchedFieldProcessor (Spec) ----
    freq,          \* self.freq: sequence of frequencies, in tenths of Hz
    cov,           \* self.covariance_matrix: one matrix (its identity) per frequency
    fixed,         \* self.parameters: the fixed parameter dict
    method,        \* self.multifreq_method
    max_workers,   \* self.max_workers, after the None default is resolved
    mw_arg,        \* the max_workers constructor argument (0 stands for None)
    pc,            \* position of the thread that calls evaluate
    search,        \* the parameters argument of the current evaluate call
    args,          \* per-frequency formatted parameters handed to executor.map
    task,          \* the futures: state, replica and response of each task
    runs,          \* how often the runner was invoked per frequency in this call
    bf_response,   \* responses collected so far from the result iterator
    result,        \* value returned by evaluate (a rational num/den)
    error,         \* index of the task whose exception evaluate raised (0: none)
    ncalls,        \* number of evaluate calls made so far
    finish_order,  \* indices of the tasks of this call, in the order they ended
    \* ---- solver invocations (SpecRun) ----
    cwd,           \* the process-wide current working directory
    dirs,          \* directories that exist
    files,         \* files that exist: <<directory, title, extension>>
    tmpdir,        \* environment.tmpdir of the runs
    run,           \* per run: position, title, saved cwd, cwd of the child
    \* ---- mode-file reader (SpecModes) ----
    modfile,       \* the mode file on disk
    req,           \* Modes.freq: the requested frequency
    modes,         \* the modes argument of read_modes (mode subset or None)
    source,        \* self.source.z: the source depths, in millimetres
    receiver,      \* self.receiver.z: the receiver depths, in millimetres
    rd,            \* reader state: position and locals of read_modes
    \* ---- receiver geometry (SpecReceiver) ----
    rcv,           \* a Receiver: the r argument and the fields set from it
    \* ---- signal processing (SpecAverage, SpecBeamformer, SpecCovariance) ----
    avg,           \* one average_covariance call: arguments and result
    bf,            \* one beamformer call: arguments and result
    gc,            \* one Processor._process_worker pass over get_covariance
    \* ---- parameter dictionaries as objects (SpecParams) ----
    par            \* the heap of nested values and the dictionaries in play

mfpVars == <<freq, cov, fixed, method, max_workers, mw_arg, pc, search, args,
             task, runs, bf_response, result, error, ncalls, finish_order>>
runVars == <<cwd, dirs, files, tmpdir, run>>
modVars == <<modfile, req, modes, source, receiver, rd>>
rcvVars == <<rcv>>
spVars == <<avg, bf, gc>>
parVars == <<par>>
vars == <<mfpVars, runVars, modVars, rcvVars, spVars, parVars>>

(***************************************************************************)
(* Bounds                                                                  *)
(***************************************************************************)
MaxF == 2          \* at most this many frequencies per processor
MaxCalls == 2      \* evaluate calls per behaviour
MaxWorkers == 2    \* largest explicit max_workers argument

Min(a, b) == IF a < b THEN a ELSE b

RECURSIVE SeqSum(_)
SeqSum(s) == IF s = <<>> THEN 0 ELSE Head(s) + SeqSum(Tail(s))

RECURSIVE SeqProd(_)
SeqProd(s) == IF s = <<>> THEN 1 ELSE Head(s) * SeqProd(Tail(s))

(***************************************************************************)
(* Parameter dictionaries: functions from keys to values.                  *)
(***************************************************************************)
EmptyDict == <<>>

\* Python's d1 | d2: keys of both, the right operand wins on collision.
DictUnion(d1, d2) ==
    [k \in (DOMAIN d1) \cup (DOMAIN d2) |->
        IF k \in DOMAIN d2 THEN d2[k] ELSE d1[k]]

\* f"{f:.0f}": round to the nearest integer, ties to even (f in tenths of Hz).
RoundHalfEven(f) ==
    LET q == f \div 10
        r == f % 10
    IN  IF r < 5 THEN q
        ELSE IF r > 5 THEN q + 1
        ELSE IF q % 2 = 0 THEN q ELSE q + 1

\* title=f"{f:.0f}Hz"
FormatTitle(f) == [stem |-> RoundHalfEven(f), unit |-> "Hz"]

\* Faulty variant of the default formatter: the frequency/title layer applied last.
FormatParameters_FreqLast(f, title, fixed_parameters, search_parameters) ==
    DictUnion(DictUnion(fixed_parameters, search_parameters),
              [freq |-> f, title |-> title])

\* _default_parameter_fmt:
\*   fixed_parameters | {"freq": freq, "title": title} | search_parameters
FormatParameters(f, title, fixed_parameters, search_parameters) ==
    DictUnion(DictUnion(fixed_parameters, [freq |-> f, title |-> title]),
              search_parameters)

(***************************************************************************)
(* The injected callables. The runner and the beamformer are constructor   *)
(* arguments; the model uses deterministic stand-ins whose value depends   *)
(* on every input they are given.                                          *)
(***************************************************************************)
Runner(p) ==
    (p["freq"] \div 1000) * (IF "src_z" \in DOMAIN p THEN p["src_z"] ELSE 1)

Beamformer(K, r_hat) == K * r_hat

\* The covariance matrices, one per frequency index: distinct primes.
CovOf(i) == 2 * i + 1

FreqValues == {1004, 2000}

FixedChoices ==
    { EmptyDict,
      [src_z |-> 2, freq |-> 5000, title |-> [stem |-> 0, unit |-> "fixed"]] }

SearchChoices ==
    { EmptyDict,
      [src_z |-> 3],
      [freq |-> 3000],
      [title |-> [stem |-> 0, unit |-> "user"]] }

Methods == {"mean", "sum", "product"}

NoResult == [num |-> 0, den |-> 0]

F == Len(freq)
Idx == 1..F

\* __init__: max_workers defaults to the number of frequencies.
EffectiveMaxWorkers(arg, n) == IF arg = 0 THEN n ELSE arg

Finished == {"done", "raised", "cancelled"}
Active == {"running", "beamforming"}

RunningCount == Cardinality({i \in DOMAIN task : task[i].st \in Active})

\* Faulty variant: a pool that starts a thread per submitted item.
WorkerAvailable_Unbounded == TRUE

\* ThreadPoolExecutor: a queued item starts only on one of max_workers threads.
WorkerAvailable == RunningCount < max_workers

NewTask == [st |-> "pending", replica |-> 0, val |-> 0]

\* Faulty variant: futures of the previous call that completed are kept.
FreshTasks_Cached(n) ==
    [i \in 1..n |->
        IF i \in DOMAIN task /\ task[i].st = "done" THEN task[i] ELSE NewTask]

\* executor.map submits one new future per zipped argument tuple.
FreshTasks(n) == [i \in 1..n |-> NewTask]

\* Faulty variant: a closure that binds the loop variable late sees the last matrix.
CovFor_LateBinding(i) == cov[Len(cov)]

\* [partial(self.beamformer, K=k) for k in self.covariance_matrix], zipped
\* with the parameter list: task i is bound to matrix i.
CovFor(i) == cov[i]

\* Faulty variant: a task's exception is swallowed and its default value used.
FutureRaises_Swallowed(i) == FALSE

\* future.result() re-raises the exception of a failed task.
FutureRaises(i) == task[i].st = "raised"

\* Faulty variant: the reduction is taken before the with-block is left.
CombineReady_Early == pc \in {"collect", "combine"}

\* The reduction follows the with-block (dedent at line 133).
CombineReady == pc = "combine"

\* Faulty variant: the mean divides by a constant 1.
Reduce_MeanAsSum(m, resp) ==
    IF m = "product" THEN [num |-> SeqProd(resp), den |-> 1]
    ELSE [num |-> SeqSum(resp), den |-> 1]

\* np.mean / np.sum / np.prod over axis 0. The mean is kept as a rational.
Reduce(m, resp) ==
    IF m = "mean" THEN [num |-> SeqSum(resp), den |-> Len(resp)]
    ELSE IF m = "sum" THEN [num |-> SeqSum(resp), den |-> 1]
    ELSE [num |-> SeqProd(resp), den |-> 1]

(***************************************************************************)
(* MatchedFieldProcessor: Init and actions                                 *)
(***************************************************************************)
FreqSeqs == UNION {[1..n -> FreqValues] : n \in 1..MaxF}

MfpInit ==
    /\ freq \in FreqSeqs
    /\ cov = [i \in 1..Len(freq) |-> CovOf(i)]
    /\ fixed \in FixedChoices
    /\ method \in Methods
    /\ mw_arg \in 0..MaxWorkers
    /\ max_workers = EffectiveMaxWorkers(mw_arg, Len(freq))
    /\ pc = "idle"
    /\ search = EmptyDict
    /\ args = <<>>
    /\ task = <<>>
    /\ runs = <<>>
    /\ bf_response = <<>>
    /\ result = NoResult
    /\ error = 0
    /\ ncalls = 0
    /\ finish_order = <<>>

\* The constructor's fields are never reassigned, and the processor touches
\* neither the file system model nor the reader.
ConfigUnchanged ==
    UNCHANGED <<freq, cov, fixed, method, max_workers, mw_arg, runVars, modVars,
                rcvVars, spVars, parVars>>

\* evaluate(parameters): the argument lists are built and every future is
\* submitted before the first result is requested.
Evaluate(parameters) ==
    /\ pc \in {"idle", "returned", "raised"}
    /\ ncalls < MaxCalls
    /\ search' = parameters
    /\ args' = [i \in Idx |->
                  FormatParameters(freq[i], FormatTitle(freq[i]), fixed, parameters)]
    /\ task' = FreshTasks(Min(F, Len(cov)))
    /\ runs' = [i \in Idx |-> 0]
    /\ bf_response' = <<>>
    /\ result' = NoResult
    /\ error' = 0
    /\ ncalls' = ncalls + 1
    /\ finish_order' = <<>>
    /\ pc' = "collect"
    /\ ConfigUnchanged

\* A worker thread takes the oldest queued item and calls the runner.
StartTask(i) ==
    /\ pc \in {"collect", "unwind"}
    /\ task[i].st = "pending"
    /\ \A j \in 1..(i - 1) : task[j].st # "pending"
    /\ WorkerAvailable
    /\ task' = [task EXCEPT ![i].st = "running"]
    /\ runs' = [runs EXCEPT ![i] = @ + 1]
    /\ UNCHANGED <<pc, search, args, bf_response, result, error, ncalls, finish_order>>
    /\ ConfigUnchanged

\* runner(parameters) returns the replica.
RunnerReturn(i) ==
    /\ task[i].st = "running"
    /\ task' = [task EXCEPT ![i].st = "beamforming",
                            ![i].replica = Runner(args[i])]
    /\ UNCHANGED <<pc, search, args, runs, bf_response, result, error, ncalls, finish_order>>
    /\ ConfigUnchanged

\* runner(parameters) raises.
RunnerRaise(i) ==
    /\ task[i].st = "running"
    /\ task' = [task EXCEPT ![i].st = "raised"]
    /\ finish_order' = Append(finish_order, i)
    /\ UNCHANGED <<pc, search, args, runs, bf_response, result, error, ncalls>>
    /\ ConfigUnchanged

\* beamformer(K=k, r_hat=replica) returns the response.
BeamformReturn(i) ==
    /\ task[i].st = "beamforming"
    /\ task' = [task EXCEPT ![i].st = "done",
                            ![i].val = Beamformer(CovFor(i), task[i].replica)]
    /\ finish_order' = Append(finish_order, i)
    /\ UNCHANGED <<pc, search, args, runs, bf_response, result, error, ncalls>>
    /\ ConfigUnchanged

\* beamformer raises.
BeamformRaise(i) ==
    /\ task[i].st = "beamforming"
    /\ task' = [task EXCEPT ![i].st = "raised"]
    /\ finish_order' = Append(finish_order, i)
    /\ UNCHANGED <<pc, search, args, runs, bf_response, result, error, ncalls>>
    /\ ConfigUnchanged

\* The list comprehension takes the next result of executor.map, in
\* submission order; a failed future re-raises, and the iterator's finally
\* clause cancels the futures not yet taken.
CollectResult ==
    /\ pc = "collect"
    /\ Len(bf_response) < Len(task)
    /\ LET n == Len(bf_response) + 1 IN
        /\ task[n].st \in {"done", "raised"}
        /\ IF FutureRaises(n)
           THEN /\ error' = n
                /\ pc' = "unwind"
                /\ task' = [i \in DOMAIN task |->
                              IF i > n /\ task[i].st = "pending"
                              THEN [task[i] EXCEPT !.st = "cancelled"]
                              ELSE task[i]]
                /\ UNCHANGED bf_response
           ELSE /\ bf_response' = Append(bf_response, task[n].val)
                /\ UNCHANGED <<pc, task, error>>
    /\ UNCHANGED <<search, args, runs, result, ncalls, finish_order>>
    /\ ConfigUnchanged

\* Leaving the with-block: shutdown(wait=True) joins the worker threads.
ExitWith ==
    /\ \/ pc = "collect" /\ Len(bf_response) = Len(task) /\ pc' = "combine"
       \/ pc = "unwind" /\ pc' = "raised"
    /\ \A i \in DOMAIN task : task[i].st \in Finished
    /\ UNCHANGED <<search, args, task, runs, bf_response, result, error, ncalls, finish_order>>
    /\ ConfigUnchanged

\* The multi-frequency combiner and the return.
Combine ==
    /\ CombineReady
    /\ result' = Reduce(method, bf_response)
    /\ pc' = "returned"
    /\ UNCHANGED <<search, args, task, runs, bf_response, error, ncalls, finish_order>>
    /\ ConfigUnchanged

MfpNext ==
    \/ \E p \in SearchChoices : Evaluate(p)
    \/ \E i \in DOMAIN task : StartTask(i)
    \/ \E i \in DOMAIN task : RunnerReturn(i)
    \/ \E i \in DOMAIN task : RunnerRaise(i)
    \/ \E i \in DOMAIN task : BeamformReturn(i)
    \/ \E i \in DOMAIN task : BeamformRaise(i)
    \/ CollectResult
    \/ ExitWith
    \/ Combine

(***************************************************************************)
(* Solver invocations: KrakenModel.run on concurrent threads of one        *)
(* process. The working directory is process-wide state.                   *)
(***************************************************************************)
NumRuns == 2       \* concurrent solver runs
NumTokens == 2     \* size of the token space of secrets.token_hex(4)

Runs == 1..NumRuns
Tokens == 1..NumTokens

LaunchDir == <<"base">>

\* tmpdir as given in the parameters: an absolute path, or the relative
\* default "tmp" of build_kraken_environment.
TmpAbs == [abs |-> TRUE, path |-> <<"T">>]
TmpRel == [abs |-> FALSE, path |-> <<"tmp">>]

\* Path resolution by the operating system at the time of the call.
Resolve(c, p) == IF p.abs THEN p.path ELSE c \o p.path

NoDir == <<>>
NoTitle == [stem |-> 0, unit |-> "", token |-> 0]

\* __post_init__: self.title += str(secrets.token_hex(4))
WithToken(title, tok) == [stem |-> title.stem, unit |-> title.unit, token |-> tok]

Extensions == {"env", "mod", "prt"}

RunInit ==
    /\ cwd = LaunchDir
    /\ dirs = {LaunchDir}
    /\ files = {}
    /\ tmpdir \in {TmpAbs, TmpRel}
    /\ run = [r \in Runs |-> [pc |-> "new", title |-> NoTitle,
                              envdir |-> NoDir, prev_cwd |-> NoDir,
                              childcwd |-> NoDir, retcode |-> 0]]

\* Tokens drawn so far. Token values carry no meaning beyond equality, so a
\* fresh token is always named by the next unused number.
TokensDrawn == {run[r].title.token : r \in {q \in Runs : run[q].pc # "new"}}

\* A solver run touches neither the processor nor the reader.
RunFrame == UNCHANGED <<mfpVars, modVars, rcvVars, spVars, parVars>>

\* build_kraken_environment: the environment is constructed with
\* title=parameters["title"], which evaluate formatted from frequency f;
\* __post_init__ appends a random token.
BuildEnv(r, f, tok) ==
    /\ run[r].pc = "new"
    /\ tok <= Cardinality(TokensDrawn) + 1
    /\ run' = [run EXCEPT ![r].pc = "built",
                          ![r].title = WithToken(FormatTitle(f), tok)]
    /\ UNCHANGED <<cwd, dirs, files, tmpdir>>
    /\ RunFrame

\* write_envfil: _check_tmpdir() makes the directory, then <title>.env is
\* written; a relative tmpdir is resolved against the current directory.
WriteEnvfil(r) ==
    /\ run[r].pc = "built"
    /\ LET d == Resolve(cwd, tmpdir) IN
        /\ dirs' = dirs \cup {d}
        /\ files' = files \cup {<<d, run[r].title, "env">>}
        /\ run' = [run EXCEPT ![r].pc = "written", ![r].envdir = d]
    /\ UNCHANGED <<cwd, tmpdir>>
    /\ RunFrame

\* _working_directory: prev_cwd = Path.cwd()
SaveCwd(r) ==
    /\ run[r].pc = "written"
    /\ run' = [run EXCEPT ![r].pc = "saved", ![r].prev_cwd = cwd]
    /\ UNCHANGED <<cwd, dirs, files, tmpdir>>
    /\ RunFrame

\* _working_directory: os.chdir(path), before the try block.
Chdir(r) ==
    /\ run[r].pc = "saved"
    /\ LET d == Resolve(cwd, tmpdir) IN
        IF d \in dirs
        THEN /\ cwd' = d
             /\ run' = [run EXCEPT ![r].pc = "indir"]
        ELSE /\ run' = [run EXCEPT ![r].pc = "raised"]
             /\ UNCHANGED cwd
    /\ UNCHANGED <<dirs, files, tmpdir>>
    /\ RunFrame

\* subprocess.call starts the child, which inherits the working directory.
Spawn(r) ==
    /\ run[r].pc = "indir"
    /\ run' = [run EXCEPT ![r].pc = "solving", ![r].childcwd = cwd]
    /\ UNCHANGED <<cwd, dirs, files, tmpdir>>
    /\ RunFrame

\* Exit statuses subprocess.call can return: success, a failure of the
\* solver, and the shell's status for a command it cannot execute (with
\* shell=True a missing executable raises nothing in the parent).
ExitOk == 0
ExitFailure == 1
ExitNotFound == 127
ExitCodes == {ExitOk, ExitFailure, ExitNotFound}

\* The child ends and subprocess.call returns its status. A solver that ran
\* reads <title>.env in its own working directory; when it got as far as the
\* modes (ok) it leaves <title>.mod and <title>.prt there, whatever status it
\* exits with afterwards; otherwise it leaves at most the print file, and
\* never reports success without having found its input.
SolverExit(r, ok, code) ==
    /\ run[r].pc = "solving"
    /\ LET d == run[r].childcwd
           found == <<d, run[r].title, "env">> \in files
       IN  /\ (code = ExitOk) => found
           /\ (code = ExitNotFound) => ~ok
           /\ files' =
                IF code = ExitNotFound \/ ~found THEN files
                ELSE IF ok THEN files \cup {<<d, run[r].title, "mod">>,
                                            <<d, run[r].title, "prt">>}
                ELSE files \cup {<<d, run[r].title, "prt">>}
           /\ run' = [run EXCEPT ![r].pc = "exited", ![r].retcode = code]
    /\ UNCHANGED <<cwd, dirs, tmpdir>>
    /\ RunFrame

\* _working_directory: finally: os.chdir(prev_cwd)
RestoreCwd(r) ==
    /\ run[r].pc = "exited"
    /\ cwd' = run[r].prev_cwd
    /\ run' = [run EXCEPT ![r].pc = "restored"]
    /\ UNCHANGED <<dirs, files, tmpdir>>
    /\ RunFrame

\* read_modes(tmpdir / title): open(f"{modfil}.mod", "rb")
ReadModes(r) ==
    /\ run[r].pc = "restored"
    /\ IF <<Resolve(cwd, tmpdir), run[r].title, "mod">> \in files
       THEN run' = [run EXCEPT ![r].pc = "read"]
       ELSE run' = [run EXCEPT ![r].pc = "raised"]
    /\ UNCHANGED <<cwd, dirs, files, tmpdir>>
    /\ RunFrame

\* clean_up_files(tmpdir, extensions, pattern=title)
CleanUp(r) ==
    /\ run[r].pc = "read"
    /\ LET d == Resolve(cwd, tmpdir) IN
        files' = files \ {<<d, run[r].title, e>> : e \in Extensions}
    /\ run' = [run EXCEPT ![r].pc = "done"]
    /\ UNCHANGED <<cwd, dirs, tmpdir>>
    /\ RunFrame

RunNext ==
    \/ \E r \in Runs, f \in FreqValues, tok \in Tokens : BuildEnv(r, f, tok)
    \/ \E r \in Runs : WriteEnvfil(r)
    \/ \E r \in Runs : SaveCwd(r)
    \/ \E r \in Runs : Chdir(r)
    \/ \E r \in Runs : Spawn(r)
    \/ \E r \in Runs, ok \in BOOLEAN, code \in ExitCodes : SolverExit(r, ok, code)
    \/ \E r \in Runs : RestoreCwd(r)
    \/ \E r \in Runs : ReadModes(r)
    \/ \E r \in Runs : CleanUp(r)

(***************************************************************************)
(* Modes.read_modes: the binary mode file, read record by record.          *)
(***************************************************************************)
MaxNFreq == 3      \* frequency entries per mode file

\* Record-length multiplier stored in the first word of the file.
RecLenWords == 25

\* Mode counts an entry of the file may carry.
ModeCounts == {0, 5, 10, 60}

\* Requested frequencies (tenths of Hz); the table holds 50, 100, 150, ... Hz.
ReqChoices == {400, 1000, 1400, 2500}

Abs(x) == IF x < 0 THEN -x ELSE x

\* The frequency table of a file with n entries.
FreqTable(n) == [i \in 1..n |-> 500 * i]

\* The mesh depths of a file with nt mesh points, in millimetres: 0, 10,
\* 20, ... m (none when nt is negative).
MeshDepths(nt) == [i \in 1..nt |-> 10000 * (i - 1)]

\* A mode file: header fields, frequency table, mesh and the mode count of
\* every frequency entry. The eigenfunctions hold nmat rows; ntot is the
\* length of the mesh, negative when the solver found no modes.
ModeFiles ==
    UNION { { [L |-> RecLenWords, nfreq |-> n, ntot |-> nt, nmat |-> 4,
               freqs |-> FreqTable(n), z |-> MeshDepths(nt), M |-> m] :
              m \in [1..n -> ModeCounts], nt \in {-1, 4, 5} } : n \in 1..MaxNFreq }

\* The modes argument of read_modes: None, or a sequence of 0-based mode
\* indices (empty, out of order, with a repetition, beyond a count of 5).
ModesChoices ==
    { [given |-> FALSE, idx |-> <<>>] } \cup
    { [given |-> TRUE, idx |-> s] : s \in { <<>>, <<3, 1>>, <<2, 2, 0>>, <<5>> } }

\* Receiver depths and source depths (millimetres, as Array.__post_init__
\* stores them after rounding to three decimals): a source on a mesh point
\* and among the receivers, off the mesh and among the receivers, on the
\* mesh only, off the mesh only, and a source of two depths.
ReceiverDepths == <<10000, 14000>>
SourceChoices == { <<10000>>, <<14000>>, <<20000>>, <<26000>>, <<10000, 20000>> }

\* Records one frequency entry occupies in the file: the mode count, the
\* halfspaces, M eigenfunctions and the wavenumbers.
BlockRecords(m, lrecl) == 2 + m + 1 + ((2 * m - 1) \div lrecl)

\* Record at which entry i (0-based) of the file begins.
RECURSIVE BlockBase(_, _)
BlockBase(file, i) ==
    IF i = 0 THEN 5
    ELSE BlockBase(file, i - 1) + BlockRecords(file.M[i], 4 * file.L)

\* unpack("l", f.read(8)) after f.seek(rec * lrecl): the mode count stored
\* at record rec, or whatever else lies there (-1).
ReadCountAt(file, rec) ==
    IF \E i \in 0..(file.nfreq - 1) : BlockBase(file, i) = rec
    THEN file.M[(CHOOSE i \in 0..(file.nfreq - 1) : BlockBase(file, i) = rec) + 1]
    ELSE -1

\* freqVec = unpack("d", f.read(8))[0]: one double, the first frequency.
ReadFreqVec(file) == <<file.freqs[1]>>

\* np.argmin(abs(freqVec - self.freq)): first index (0-based) of the minimum.
ArgMinDiff(v, target) ==
    (CHOOSE i \in 1..Len(v) :
        /\ \A j \in 1..Len(v) : Abs(v[i] - target) <= Abs(v[j] - target)
        /\ \A j \in 1..(i - 1) : Abs(v[j] - target) > Abs(v[i] - target)) - 1

\* iRecProfile + 2 + M + 1 + np.floor((2 * M - 1) / lrecl)
Advance(iRecProfile, m, lrecl) ==
    iRecProfile + 2 + m + 1 + ((2 * m - 1) \div lrecl)

\* Entry (0-based) in whose block record rec lies; the last block is taken
\* to extend to the end of the file.
EntryOf(file, rec) ==
    CHOOSE i \in 0..(file.nfreq - 1) :
        /\ BlockBase(file, i) <= rec
        /\ i < file.nfreq - 1 => rec < BlockBase(file, i + 1)

\* What the solver wrote: float p of the eigenfunction record of mode m of
\* entry e, and float p of the wavenumber record of entry e. Every float of
\* the file is different from every other.
EigenFloat(e, m, p) == 10000 * e + 100 * m + p
WaveFloat(e, p) == 1000000 + 10000 * e + p

\* The floats found at record rec: the wavenumber record of an entry holds
\* 2 * M floats, every other record is read as 2 * nmat floats.
RecordFloats(file, rec) ==
    LET e == EntryOf(file, rec)
        off == rec - BlockBase(file, e)
        m == file.M[e + 1]
    IN  IF off = 2 + m
        THEN [p \in 1..(2 * m) |-> WaveFloat(e, p)]
        ELSE [p \in 1..(2 * file.nmat) |-> EigenFloat(e, off - 2, p)]

\* The halfspace record of entry e: for the top and then for the bottom
\* halfspace the boundary-condition byte, the compressional pair, the shear
\* pair, the density and the depth.
HalfspaceRecord(e) ==
    << 86, 1500 + e, 1, 300 + e, 2, 1000, 0,
       65, 1800 + e, 3, 400 + e, 4, 2000, 100 >>

\* complex(cp[0], cp[1])
CompressionalSpeed(cp) == [re |-> cp[1], im |-> cp[2]]

\* complex(cs[1], cs[1])
ShearSpeed(cs) == [re |-> cs[2], im |-> cs[2]]

\* One halfspace, unpacked field by field from position pos of the record
\* the file pointer is in, and the ModesHalfspace built from it.
UnpackHalfspace(fl, pos) ==
    LET cp == CompressionalSpeed(<<fl[pos + 1], fl[pos + 2]>>)
        cs == ShearSpeed(<<fl[pos + 3], fl[pos + 4]>>)
    IN  [bc |-> fl[pos], z |-> fl[pos + 6], alphaR |-> cp.re, betaR |-> cs.re,
         alphaI |-> cp.im, betaI |-> cs.im, rho |-> fl[pos + 5]]

NoHalfspace ==
    [bc |-> 0, z |-> 0, alphaR |-> 0, betaR |-> 0, alphaI |-> 0, betaI |-> 0,
     rho |-> 0]

\* np.linspace(0, M - 1, M, dtype=int)
DefaultModes(M) == [j \in 1..M |-> j - 1]

\* Faulty variant: the eigenfunctions are taken to start one record early.
PhiRecord_ByPosition(iRecProfile, idx) == iRecProfile + 1 + idx

\* rec = iRecProfile + 2 + int(modes[ii]): the record of the eigenfunction
\* of mode index idx.
PhiRecord(iRecProfile, idx) == iRecProfile + 2 + idx

\* rec = iRecProfile + 2 + M: the record of the wavenumbers.
KRecord(iRecProfile, M) == iRecProfile + 2 + M

\* Even positions are real parts, odd positions imaginary parts (0-based).
Deinterleave(fl) ==
    [i \in 1..(Len(fl) \div 2) |-> [re |-> fl[2 * i - 1], im |-> fl[2 * i]]]

\* Faulty variant: the wavenumbers are returned without subsetting.
SubsetOf_Full(k, idx) == k

\* np.array([modes_k[i] for i in modes])
SubsetOf(k, idx) == [j \in 1..Len(idx) |-> k[idx[j] + 1]]

\* numpy broadcasting of two vectors of lengths a and b.
Broadcasts(a, b) == a = b \/ a = 1 \/ b = 1
At(v, i) == IF Len(v) = 1 THEN v[1] ELSE v[i]
BroadcastLen(u, v) == IF Len(u) = 1 THEN Len(v) ELSE Len(u)

\* abs(self.source.z - self.z)
DepthDiff(src, z) ==
    [i \in 1..BroadcastLen(src, z) |-> Abs(At(src, i) - At(z, i))]

\* np.argmin: the first index (0-based) of the minimum.
ArgMin(d) ==
    (CHOOSE i \in 1..Len(d) :
        /\ \A j \in 1..Len(d) : d[i] <= d[j]
        /\ \A j \in 1..(i - 1) : d[j] > d[i]) - 1

\* self.source.z in self.receiver.z, that is (receiver.z == source.z).any()
Contains(rz, sz) == \E i \in 1..BroadcastLen(rz, sz) : At(rz, i) = At(sz, i)

\* phi[mask, :] with the mask set at ind only.
SourceRows(phi, ind) == <<phi[ind + 1]>>

\* phi[np.invert(mask), :]
ComplementRows(phi, ind) ==
    [i \in 1..(Len(phi) - 1) |-> IF i <= ind THEN phi[i] ELSE phi[i + 1]]

\* Faulty variant: the matched row is taken out in every case.
ReceiverRows_AlwaysComplement(phi, ind, shared) == ComplementRows(phi, ind)

\* phi_rec: phi itself when the source depth is among the receiver depths.
ReceiverRows(phi, ind, shared) ==
    IF shared THEN phi ELSE ComplementRows(phi, ind)

\* Faulty variant: the sign of ntot is not looked at.
NoModes_Never(ntot) == FALSE

\* if ntot < 0: return
NoModes(ntot) == ntot < 0

RdStart ==
    [pc |-> "start", lrecl |-> 0, nfreq |-> 0, ntot |-> 0, nmat |-> 0,
     freqVec |-> <<>>, freq_index |-> 0, ifreq |-> 0, iRecProfile |-> 1,
     rec |-> 0, M |-> 0, reads |-> 0, z |-> <<>>, modes |-> <<>>,
     top |-> NoHalfspace, bottom |-> NoHalfspace, phi |-> <<>>, k |-> <<>>,
     phi_src |-> <<>>, phi_rec |-> <<>>, err |-> "none"]

ModInit ==
    /\ modfile \in ModeFiles
    /\ req \in ReqChoices
    /\ modes \in ModesChoices
    /\ source \in SourceChoices
    /\ receiver = ReceiverDepths
    /\ rd = RdStart

\* The reader touches neither the processor nor the solver runs.
ModFrame ==
    UNCHANGED <<mfpVars, runVars, rcvVars, spVars, parVars, modfile, req, modes,
                source, receiver>>

\* Lines 64-83: record length and header; a negative ntot ends the read.
ReadHeader ==
    /\ rd.pc = "start"
    /\ rd' = [rd EXCEPT !.lrecl = 4 * modfile.L,
                        !.nfreq = modfile.nfreq,
                        !.ntot = modfile.ntot,
                        !.nmat = modfile.nmat,
                        !.rec = 0,
                        !.reads = 1,
                        !.pc = IF NoModes(modfile.ntot) THEN "nomodes" ELSE "tables"]
    /\ ModFrame

\* Lines 85-119: media, depths, the frequency vector and the mesh, then the
\* index of the frequency closest to the requested one.
ReadTables ==
    /\ rd.pc = "tables"
    /\ LET fv == ReadFreqVec(modfile) IN
        rd' = [rd EXCEPT !.freqVec = fv,
                         !.z = modfile.z,
                         !.freq_index = ArgMinDiff(fv, req),
                         !.iRecProfile = rd.iRecProfile + 4,
                         !.rec = rd.iRecProfile + 4,
                         !.ifreq = 0,
                         !.reads = rd.reads + 4,
                         !.pc = "scan"]
    /\ ModFrame

\* Lines 122-133: one iteration of the frequency scan. The advance yields a
\* numpy float, which the seek that follows it rejects.
ScanStep ==
    /\ rd.pc = "scan"
    /\ LET m == ReadCountAt(modfile, rd.rec) IN
        IF rd.ifreq < rd.freq_index
        THEN rd' = [rd EXCEPT !.M = m,
                              !.iRecProfile = Advance(rd.iRecProfile, m, rd.lrecl),
                              !.rec = Advance(rd.iRecProfile, m, rd.lrecl),
                              !.reads = rd.reads + 1,
                              !.err = "seek",
                              !.pc = "raised"]
        ELSE rd' = [rd EXCEPT !.M = m,
                              !.ifreq = rd.ifreq + 1,
                              !.reads = rd.reads + 1,
                              !.pc = "halfspace"]
    /\ ModFrame

\* Lines 135-179: the default mode subset, then the top halfspace at
\* iRecProfile + 1 and the bottom halfspace read on from where the top ended.
ReadHalfspaces ==
    /\ rd.pc = "halfspace"
    /\ LET fl == HalfspaceRecord(EntryOf(modfile, rd.iRecProfile + 1)) IN
        rd' = [rd EXCEPT !.modes = IF modes.given THEN modes.idx
                                                   ELSE DefaultModes(rd.M),
                         !.rec = rd.iRecProfile + 1,
                         !.top = UnpackHalfspace(fl, 1),
                         !.bottom = UnpackHalfspace(fl, 8),
                         !.reads = rd.reads + 1,
                         !.pc = "modes"]
    /\ ModFrame

\* Lines 181-210: nothing to read when M is 0; otherwise one eigenfunction
\* record per requested mode, then the wavenumber record and its subset. A
\* mode index of M or more ends in a raise (past the end of the file at line
\* 195, or at line 209).
ReadModeData ==
    /\ rd.pc = "modes"
    /\ IF rd.M = 0
       THEN rd' = [rd EXCEPT !.rec = rd.iRecProfile,
                             !.phi = <<>>,
                             !.k = <<>>,
                             !.pc = "format"]
       ELSE IF \E j \in 1..Len(rd.modes) : rd.modes[j] >= rd.M
       THEN rd' = [rd EXCEPT !.rec = KRecord(rd.iRecProfile, rd.M),
                             !.reads = rd.reads + Len(rd.modes) + 1,
                             !.err = "subset",
                             !.pc = "raised"]
       ELSE LET col == [j \in 1..Len(rd.modes) |->
                          Deinterleave(RecordFloats(modfile,
                              PhiRecord(rd.iRecProfile, rd.modes[j])))]
                k == Deinterleave(RecordFloats(modfile,
                                      KRecord(rd.iRecProfile, rd.M)))
            IN  rd' = [rd EXCEPT
                         !.rec = KRecord(rd.iRecProfile, rd.M),
                         !.phi = [r \in 1..rd.nmat |->
                                    [j \in 1..Len(rd.modes) |-> col[j][r]]],
                         !.k = SubsetOf(k, rd.modes),
                         !.reads = rd.reads + Len(rd.modes) + 1,
                         !.pc = "format"]
    /\ ModFrame

\* Lines 212-241: the fields are stored and _format_modes projects the
\* eigenfunctions. It raises when the source depths do not broadcast against
\* the mesh, when phi is the empty list of the M = 0 branch (a list takes no
\* mask index), and when the mask (ntot long) does not fit the nmat rows.
FormatModes ==
    /\ rd.pc = "format"
    /\ IF \/ ~Broadcasts(Len(source), Len(rd.z))
          \/ rd.M = 0
          \/ Len(rd.z) # rd.nmat
       THEN rd' = [rd EXCEPT !.err = "format", !.pc = "raised"]
       ELSE LET ind == ArgMin(DepthDiff(source, rd.z)) IN
            rd' = [rd EXCEPT
                     !.phi_src = SourceRows(rd.phi, ind),
                     !.phi_rec = ReceiverRows(rd.phi, ind,
                                              Contains(receiver, source)),
                     !.pc = "returned"]
    /\ ModFrame

ModNext ==
    \/ ReadHeader
    \/ ReadTables
    \/ ScanStep
    \/ ReadHalfspaces
    \/ ReadModeData
    \/ FormatModes

(***************************************************************************)
(* Receiver: the range vector of a receiver geometry.                      *)
(***************************************************************************)
MaxRangeLen == 4   \* longest range vector handed to the constructor

\* Ranges a vector may hold, in metres.
RangeValues == {0, 500, 1500}

\* The r argument: any vector of these ranges, the empty one included.
RangeInputs == UNION { [1..n -> RangeValues] : n \in 0..MaxRangeLen }

\* Faulty variant: the vector is kept as it is.
FormatRange_KeepAll(r) == r

\* if self.r[0] == 0: self.r = self.r[1:]
FormatRange(r) == IF r[1] = 0 THEN Tail(r) ELSE r

\* np.min and np.max of a non-empty vector.
SeqMin(r) == CHOOSE x \in { r[i] : i \in 1..Len(r) } : \A i \in 1..Len(r) : x <= r[i]
SeqMax(r) == CHOOSE x \in { r[i] : i \in 1..Len(r) } : \A i \in 1..Len(r) : x >= r[i]

RcvInit ==
    /\ \E v \in RangeInputs :
          rcv = [pc |-> "new", r_in |-> v, r |-> v, nr |-> 0, r_min |-> 0,
                 r_max |-> 0]

\* Receiver.__post_init__ with format_range (no tilt, no offsets): r[0] of
\* an empty vector raises, and so does np.min of the vector left empty.
ReceiverPostInit ==
    /\ rcv.pc = "new"
    /\ IF Len(rcv.r) = 0
       THEN rcv' = [rcv EXCEPT !.pc = "raised"]
       ELSE LET r == FormatRange(rcv.r) IN
            IF Len(r) = 0
            THEN rcv' = [rcv EXCEPT !.r = r, !.pc = "raised"]
            ELSE rcv' = [rcv EXCEPT !.r = r,
                                    !.r_min = SeqMin(r),
                                    !.r_max = SeqMax(r),
                                    !.nr = Len(r),
                                    !.pc = "built"]
    /\ UNCHANGED <<mfpVars, runVars, modVars, spVars, parVars>>

RcvNext == ReceiverPostInit

(***************************************************************************)
(* average_covariance (tritonoa/sp/processing.py). A covariance matrix is  *)
(* represented by one of its entries: the average is elementwise, so every *)
(* entry is treated alike.                                                 *)
(***************************************************************************)
MaxCov == 5          \* at most this many covariance matrices in one call
MaxAveraging == 3    \* largest covariance_averaging argument
CovEntries == {1, 4}

CovInputs == UNION { [1..n -> CovEntries] : n \in 1..MaxCov }

\* np.ceil(K.shape[0] // covariance_averaging).astype(int): the floor division
\* is done first, so the ceiling acts on an integer.
NumAvgSegments(N, k) == N \div k

\* np.array_split: the first N % n sections hold N // n + 1 items, the others
\* N // n. SectionStart(N, n, i) is the index before section i (1-based).
SectionSize(N, n, i) == IF i <= N % n THEN (N \div n) + 1 ELSE N \div n

RECURSIVE SectionStart(_, _, _)
SectionStart(N, n, i) ==
    IF i = 1 THEN 0 ELSE SectionStart(N, n, i - 1) + SectionSize(N, n, i - 1)

\* One section of K_split with np.mean(K_sub, axis=0) kept as sum and count.
ArraySplit(K, n) ==
    [i \in 1..n |->
        LET lo == SectionStart(Len(K), n, i) + 1
            hi == SectionStart(Len(K), n, i) + SectionSize(Len(K), n, i)
        IN  [lo |-> lo, hi |-> hi,
             sum |-> SeqSum(SubSeq(K, lo, hi)), count |-> hi - lo + 1]]

AvgInit ==
    \E K \in CovInputs, k \in 1..MaxAveraging :
        avg = [pc |-> "called", K |-> K, covariance_averaging |-> k, out |-> <<>>]

AvgFrame == UNCHANGED <<mfpVars, runVars, modVars, rcvVars, parVars, bf, gc>>

\* average_covariance, whole call. array_split raises ValueError when asked
\* for zero sections.
AverageCovariance ==
    /\ avg.pc = "called"
    /\ LET n == NumAvgSegments(Len(avg.K), avg.covariance_averaging)
       IN  IF n <= 0
           THEN avg' = [avg EXCEPT !.pc = "raised"]
           ELSE avg' = [avg EXCEPT !.pc = "returned", !.out = ArraySplit(avg.K, n)]
    /\ AvgFrame

AvgNext == AverageCovariance

(***************************************************************************)
(* beamformer and its estimators (tritonoa/sp/beamforming.py). K is a real *)
(* M x M matrix with M = 2, r_hat an M x 1 replica. A matrix is kept as    *)
(* integer numerators a, b (first row), c, d (second row) over one common  *)
(* denominator; a response is an exact fraction.                           *)
(***************************************************************************)
MaxEntry == 3        \* entries of K range over 0..MaxEntry
MaxSources == 1      \* largest num_src argument
NumChannels == 2     \* M, the size of K

Sign(x) == IF x < 0 THEN -1 ELSE IF x > 0 THEN 1 ELSE 0

RECURSIVE GCD(_, _)
GCD(x, y) == IF y = 0 THEN x ELSE GCD(y, x % y)

\* The fraction n/d in lowest terms with a positive denominator. Division by
\* zero gives what numpy gives: inf (1/0), -inf (-1/0) or nan (0/0).
Rat(n, d) ==
    IF d = 0 THEN [kind |-> "value", num |-> Sign(n), den |-> 0]
    ELSE LET g == GCD(Abs(n), Abs(d))
         IN  [kind |-> "value", num |-> (Sign(d) * n) \div g, den |-> Abs(d) \div g]

RatAdd(p, q) == Rat(p.num * q.den + q.num * p.den, p.den * q.den)
RatInv(p) == Rat(p.den, p.num)

Matrix(a, b, c, d, den) == [a |-> a, b |-> b, c |-> c, d |-> d, den |-> den]

Trace(K) == K.a + K.d
Det(K) == K.a * K.d - K.b * K.c
Dot(u, v) == u[1] * v[1] + u[2] * v[2]

\* r^T K r, numerator over K.den.
Quad(K, r) ==
    K.a * r[1] * r[1] + (K.b + K.c) * r[1] * r[2] + K.d * r[2] * r[2]

\* The adjugate of K: inv(K) = K.den * Adjugate(K) / Det(K).
Adjugate(K) == Matrix(K.d, -K.b, -K.c, K.a, 1)

\* enforce_hermitian: (A + A.conj().T) / 2
EnforceHermitian(K) == Matrix(2 * K.a, K.b + K.c, K.b + K.c, 2 * K.d, 2 * K.den)

\* The integer eigenvalues of K (K.den = 1).
Eigenvalues(K) ==
    { l \in (-MaxEntry)..(2 * MaxEntry) : l * l - Trace(K) * l + Det(K) = 0 }

\* An eigenvector of K for the eigenvalue l (K is not a multiple of I).
EigenVector(K, l) ==
    IF K.b # 0 \/ l # K.a THEN <<K.b, l - K.a>> ELSE <<l - K.d, K.c>>

\* np.linalg.eig: the eigenvalues "are not necessarily ordered". An upper
\* triangular matrix is its own Schur form and the eigenvalues come in the
\* order of the diagonal; for any other matrix either order can result.
EigOrders(K) ==
    IF K.c = 0 THEN { <<K.a, K.d>> }
    ELSE { s \in [1..NumChannels -> Eigenvalues(K)] : s[1] # s[2] }

CovarianceMatrices ==
    { K \in { Matrix(a, b, c, d, 1) : a \in 0..MaxEntry, b \in 0..MaxEntry,
                                      c \in 0..MaxEntry, d \in 0..MaxEntry } :
        Cardinality(Eigenvalues(K)) = NumChannels }

Replicas == { <<1, 0>>, <<0, 1>>, <<1, 1>>, <<1, 2>> }

SupportedTypes == { "cbf", "cbf_ml", "cbf_ml2", "mvdr", "music", "eigen" }
BeamformerTypes == SupportedTypes \cup { "bartlett", "MVDR" }

\* bf_cbf with w = r_hat / norm(r_hat): w^T K w
BfCbf(K, r) == Rat(Quad(K, r), K.den * Dot(r, r))

\* bf_cbf_ml: trace(K) - w^T K w
BfCbfMl(K, r) == Rat(Trace(K) * Dot(r, r) - Quad(K, r), K.den * Dot(r, r))

\* _bf_cbf_ml: (n_h / (e * pi * phi)) ** n_h, kept as the fraction phi.
BfCbfMl2(K, r) == [BfCbfMl(K, r) EXCEPT !.kind = "ml_power"]

\* bf_mvdr for an invertible K: 1 / (w^T inv(K) w)
BfMvdr(K, r) == Rat(Det(K) * Dot(r, r), K.den * Quad(Adjugate(K), r))

IsPowerOfTwo(n) == \E e \in 0..MaxEntry : n = 2 ^ e

\* np.linalg.inv (LAPACK getrf, getri) of a singular K raises LinAlgError only
\* when elimination leaves a pivot that is exactly zero. With the pivot p (the
\* larger entry of the first column), the other entry q and the second entry
\* u of the pivot row, the second pivot is fl(v - fl(q * fl(1/p)) * u). It is
\* exactly zero when the column is zero, when q or u is zero, when q = p (the
\* multiplier rounds to 1 for every p below 49) or when p is a power of two;
\* otherwise rounding, and whether the update is a fused multiply-add,
\* decides if a residue is left and the inverse of the residue is returned.
InvOutcomes(K) ==
    LET p == IF K.a >= K.c THEN K.a ELSE K.c
        q == IF K.a >= K.c THEN K.c ELSE K.a
        u == IF K.a >= K.c THEN K.b ELSE K.d
    IN  IF Det(K) # 0 THEN { "inverse" }
        ELSE IF p = 0 \/ q = 0 \/ q = p \/ u = 0 \/ IsPowerOfTwo(p)
        THEN { "LinAlgError" }
        ELSE { "LinAlgError", "residue" }

\* V[:, 0:-num_src]: the columns kept, as indices into the eig result.
KeptColumns(num_src) ==
    IF num_src = 0 THEN {} ELSE { j \in 1..NumChannels : j <= NumChannels - num_src }

\* w^T V V^T w for the kept columns: the squared projections of w onto the
\* unit eigenvectors.
RECURSIVE Projection(_, _, _, _)
Projection(K, order, cols, r) ==
    IF cols = {} THEN Rat(0, 1)
    ELSE LET j == CHOOSE x \in cols : TRUE
             v == EigenVector(K, order[j])
         IN  RatAdd(Rat(Dot(v, r) * Dot(v, r), Dot(v, v) * Dot(r, r)),
                    Projection(K, order, cols \ {j}, r))

\* bf_music given the eig result.
BfMusic(K, order, num_src, r) == RatInv(Projection(K, order, KeptColumns(num_src), r))

NoValue(kind) == [kind |-> kind, num |-> 0, den |-> 0]

\* abs(B)
AbsValue(B) == IF B.kind = "value" THEN [B EXCEPT !.num = Abs(B.num)] ELSE B

\* Faulty variant: an unknown type falls through to the Bartlett estimator.
Dispatch_DefaultCbf(atype) == IF atype \in SupportedTypes THEN atype ELSE "cbf"

\* The if/elif chain of beamformer: the estimator a type string selects.
Dispatch(atype) == IF atype \in SupportedTypes THEN atype ELSE "none"

NotImplementedMessage == <<"Beamformer '", "atype", "' not implemented.">>

BfInit ==
    \E K \in CovarianceMatrices, r \in Replicas, t \in BeamformerTypes,
       n \in 0..MaxSources, ab \in BOOLEAN :
        bf = [pc |-> "called", K |-> K, r_hat |-> r, atype |-> t, num_src |-> n,
              abs_value |-> ab, evaluated |-> "none", arg |-> K,
              eig |-> <<>>, B |-> NoValue("unset"), exc |-> "none", msg |-> <<>>]

BfFrame == UNCHANGED <<mfpVars, runVars, modVars, rcvVars, parVars, avg, gc>>

\* What the selected estimator returns or raises for the matrix Kin.
Estimate(est, Kin, order, outcome) ==
    CASE est = "cbf" -> [B |-> BfCbf(Kin, bf.r_hat), exc |-> "none"]
      [] est = "cbf_ml" -> [B |-> BfCbfMl(Kin, bf.r_hat), exc |-> "none"]
      [] est = "cbf_ml2" -> [B |-> BfCbfMl2(Kin, bf.r_hat), exc |-> "none"]
      [] est = "mvdr" ->
            IF outcome = "inverse" THEN [B |-> BfMvdr(Kin, bf.r_hat), exc |-> "none"]
            ELSE IF outcome = "residue" THEN [B |-> NoValue("residue"), exc |-> "none"]
            ELSE [B |-> NoValue("unset"), exc |-> "LinAlgError"]
      [] est = "music" ->
            [B |-> BfMusic(Kin, order, bf.num_src, bf.r_hat), exc |-> "none"]
      [] est = "eigen" -> [B |-> NoValue("None"), exc |-> "none"]

\* beamformer, whole call.
Beamform ==
    /\ bf.pc = "called"
    /\ LET Kin == bf.K      \* line 125: the enforce_hermitian call is a comment
           est == Dispatch(bf.atype)
       IN  IF est = "none"
           THEN bf' = [bf EXCEPT !.pc = "raised", !.exc = "TypeError",
                                 !.msg = NotImplementedMessage]
           ELSE \E order \in EigOrders(Kin), outcome \in InvOutcomes(Kin) :
                  LET e == Estimate(est, Kin, order, outcome)
                      seen == [bf EXCEPT !.evaluated = est, !.arg = Kin,
                                         !.eig = IF est \in {"music", "eigen"}
                                                 THEN order ELSE <<>>]
                  IN  IF e.exc # "none"
                      THEN bf' = [seen EXCEPT !.pc = "raised", !.exc = e.exc]
                      ELSE IF bf.abs_value /\ e.B.kind = "None"
                      THEN bf' = [seen EXCEPT !.pc = "raised", !.exc = "TypeError",
                                              !.B = e.B]
                      ELSE bf' = [seen EXCEPT !.pc = "returned",
                                              !.B = IF bf.abs_value
                                                    THEN AbsValue(e.B) ELSE e.B]
    /\ BfFrame

BfNext == Beamform

(***************************************************************************)
(* get_covariance inside Processor._process_worker                         *)
(* (tritonoa/sp/processing.py). The pressure array p holds one snapshot    *)
(* per row; a row is kept as integer numerators over one denominator.      *)
(***************************************************************************)
MaxSnapshots == 3    \* at most this many rows (time samples) in p

Row(v, den) == [v |-> v, den |-> den]

\* Snapshots with a non-zero norm that is a whole number: 5, 2 and 1.
Snapshots == { Row(<<3, 4>>, 1), Row(<<0, 2>>, 1), Row(<<1, 0>>, 1) }

PressureInputs == UNION { [1..n -> Snapshots] : n \in 1..MaxSnapshots }

ISqrt(n) == CHOOSE s \in 0..n : s * s = n

\* d /= np.linalg.norm(d), the quotient in lowest terms.
DivideByNorm(row) ==
    LET n == ISqrt(Dot(row.v, row.v))
        g == GCD(GCD(Abs(row.v[1]), Abs(row.v[2])), n * row.den)
    IN  Row(<<row.v[1] \div g, row.v[2] \div g>>, (n * row.den) \div g)

\* covariance(d): d.dot(d.conj().T), the outer product of the column d.
Covariance(row) ==
    [m |-> <<<<row.v[1] * row.v[1], row.v[1] * row.v[2]>>,
             <<row.v[2] * row.v[1], row.v[2] * row.v[2]>>>>,
     den |-> row.den * row.den]

\* The loop of get_covariance from row i on: d is a view of data[i], so the
\* in-place division writes through to data. Yields the array as the loop
\* leaves it and the matrices K[i..].
RECURSIVE CovarianceLoop(_, _, _)
CovarianceLoop(data, normalize, i) ==
    IF i > Len(data) THEN [data |-> data, K |-> <<>>]
    ELSE LET d == IF normalize THEN DivideByNorm(data[i]) ELSE data[i]
             rest == CovarianceLoop([data EXCEPT ![i] = d], normalize, i + 1)
         IN  [data |-> rest.data, K |-> <<Covariance(d)>> \o rest.K]

GcInit ==
    \E p \in PressureInputs, cc \in BOOLEAN, nc \in BOOLEAN :
        gc = [pc |-> "pressure", p |-> p, p0 |-> p, compute_covariance |-> cc,
              normalize_covariance |-> nc, K |-> <<>>, saved |-> <<>>]

GcFrame == UNCHANGED <<mfpVars, runVars, modVars, rcvVars, parVars, avg, bf>>

\* _process_worker, lines 161-162: K = get_covariance(p, normalize=...)
GetCovariance ==
    /\ gc.pc = "pressure"
    /\ gc.compute_covariance
    /\ LET out == CovarianceLoop(gc.p, gc.normalize_covariance, 1)
       IN  gc' = [gc EXCEPT !.pc = "covariance", !.p = out.data, !.K = out.K]
    /\ GcFrame

\* _save_data: np.save(savepath / "data.npy", p)
SaveData ==
    /\ \/ gc.pc = "covariance"
       \/ gc.pc = "pressure" /\ ~gc.compute_covariance
    /\ gc' = [gc EXCEPT !.pc = "saved", !.saved = gc.p]
    /\ GcFrame

GcNext ==
    \/ GetCovariance
    \/ SaveData

(***************************************************************************)
(* The parameter dictionaries of evaluate as Python objects                *)
(* (tritonoa/sp/mfp.py). A dictionary maps keys to values; a value is      *)
(* either immutable (kept in place) or a reference to a mutable object on  *)
(* the heap, such as a list of depths.                                     *)
(***************************************************************************)
MaxEvaluations == 2    \* evaluate calls per behaviour

Val(x) == [kind |-> "val", x |-> x]
Ref(id) == [kind |-> "ref", x |-> id]

\* The frequencies of the processor.
ParFreq == <<1004, 2000>>

\* Contents of the two mutable objects that exist before the first call, and
\* the content a runner leaves in an object it mutates.
HeapStart == <<7, 8>>
Mutated == 9

ParFixedChoices == { EmptyDict, [src_z |-> Val(2), rec_z |-> Ref(1)] }
ParSearchChoices == { [depth |-> Val(3)], [depth |-> Val(3), rec_r |-> Ref(2)] }

\* The dictionary with every reference replaced by the object's content.
Deref(d, heap) ==
    [k \in DOMAIN d |-> IF d[k].kind = "ref" THEN heap[d[k].x] ELSE d[k].x]

RefKeys(d) == { k \in DOMAIN d : d[k].kind = "ref" }

\* deepcopy(self.parameters): a new dictionary in which every mutable value
\* is a new object with the same content.
RECURSIVE DeepCopy(_, _, _)
DeepCopy(d, heap, keys) ==
    IF keys = {} THEN [dict |-> d, heap |-> heap]
    ELSE LET k == CHOOSE x \in keys : TRUE
         IN  DeepCopy([d EXCEPT ![k] = Ref(Len(heap) + 1)],
                      Append(heap, heap[d[k].x]), keys \ {k})

\* {**parameters}: a new dictionary holding the same values (the same
\* objects) under the same keys.
ShallowCopy(d) == [k \in DOMAIN d |-> d[k]]

\* The argument list of executor.map, built frequency by frequency from index
\* i on; every deepcopy allocates on the heap the previous one left.
RECURSIVE FormatAll(_, _, _, _)
FormatAll(i, stored, caller, heap) ==
    IF i > Len(ParFreq) THEN [tasks |-> <<>>, heap |-> heap]
    ELSE LET fixed_parameters == DeepCopy(stored, heap, RefKeys(stored))
             search_parameters == ShallowCopy(caller)
             t == [pc |-> "submitted", f |-> ParFreq[i], touched |-> FALSE,
                   parameters |->
                       FormatParameters(Val(ParFreq[i]), Val(FormatTitle(ParFreq[i])),
                                        fixed_parameters.dict, search_parameters)]
             rest == FormatAll(i + 1, stored, caller, fixed_parameters.heap)
         IN  [tasks |-> <<t>> \o rest.tasks, heap |-> rest.heap]

ParInit ==
    \E fx \in ParFixedChoices, sp \in ParSearchChoices :
        par = [pc |-> "ready", heap |-> HeapStart, stored |-> fx, caller |-> sp,
               stored0 |-> Deref(fx, HeapStart), caller0 |-> Deref(sp, HeapStart),
               tasks |-> <<>>, ncalls |-> 0]

ParFrame == UNCHANGED <<mfpVars, runVars, modVars, rcvVars, spVars>>

\* evaluate, lines 114-131: the formatted parameters of every frequency are
\* built and the tasks submitted. A further call is made with the same
\* dictionary once the tasks of the call before have ended.
ParEvaluate ==
    /\ par.ncalls < MaxEvaluations
    /\ \A i \in DOMAIN par.tasks : par.tasks[i].pc = "returned"
    /\ LET all == FormatAll(1, par.stored, par.caller, par.heap)
       IN  par' = [par EXCEPT !.pc = "evaluating", !.heap = all.heap,
                              !.tasks = all.tasks, !.ncalls = par.ncalls + 1]
    /\ ParFrame

\* A worker thread calls runner(parameters).
ParRunnerStart(i) ==
    /\ par.tasks[i].pc = "submitted"
    /\ par' = [par EXCEPT !.tasks[i].pc = "running"]
    /\ ParFrame

\* The runner assigns to a key of the dictionary it received.
ParRunnerSetItem(i, k) ==
    /\ par.tasks[i].pc = "running"
    /\ k \in DOMAIN par.tasks[i].parameters
    /\ par.tasks[i].parameters[k] # Val(Mutated)
    /\ par' = [par EXCEPT !.tasks[i].parameters[k] = Val(Mutated),
                          !.tasks[i].touched = TRUE]
    /\ ParFrame

\* The runner mutates, in place, a mutable value of the dictionary.
ParRunnerMutateNested(i, k) ==
    /\ par.tasks[i].pc = "running"
    /\ k \in RefKeys(par.tasks[i].parameters)
    /\ par.heap[par.tasks[i].parameters[k].x] # Mutated
    /\ par' = [par EXCEPT !.heap[par.tasks[i].parameters[k].x] = Mutated,
                          !.tasks[i].touched = TRUE]
    /\ ParFrame

ParRunnerReturn(i) ==
    /\ par.tasks[i].pc = "running"
    /\ par' = [par EXCEPT !.tasks[i].pc = "returned"]
    /\ ParFrame

ParKeys == {"src_z", "rec_z", "depth", "rec_r", "freq"}

ParNext ==
    \/ ParEvaluate
    \/ \E i \in DOMAIN par.tasks : ParRunnerStart(i)
    \/ \E i \in DOMAIN par.tasks, k \in ParKeys : ParRunnerSetItem(i, k)
    \/ \E i \in DOMAIN par.tasks, k \in ParKeys : ParRunnerMutateNested(i, k)
    \/ \E i \in DOMAIN par.tasks : ParRunnerReturn(i)

\* The parts of the state a specification does not exercise stay at rest.
MfpIdle ==
    /\ freq = <<>> /\ cov = <<>> /\ fixed = EmptyDict /\ method = "mean"
    /\ max_workers = 1 /\ mw_arg = 0 /\ pc = "idle" /\ search = EmptyDict
    /\ args = <<>> /\ task = <<>> /\ runs = <<>> /\ bf_response = <<>>
    /\ result = NoResult /\ error = 0 /\ ncalls = 0
    /\ finish_order = <<>>

RunIdle ==
    /\ cwd = LaunchDir /\ dirs = {LaunchDir} /\ files = {} /\ tmpdir = TmpAbs
    /\ run = <<>>

ModIdle ==
    /\ modfile = <<>> /\ req = 0 /\ rd = [pc |-> "idle"]
    /\ modes = [given |-> FALSE, idx |-> <<>>]
    /\ source = <<>> /\ receiver = <<>>

RcvIdle == rcv = [pc |-> "idle"]

AvgIdle == avg = [pc |-> "idle"]
BfIdle == bf = [pc |-> "idle"]
GcIdle == gc = [pc |-> "idle"]
ParIdle == par = [pc |-> "idle"]

Init ==
    /\ MfpInit /\ RunIdle /\ ModIdle /\ RcvIdle
    /\ AvgIdle /\ BfIdle /\ GcIdle /\ ParIdle
Next == MfpNext
Spec == Init /\ [][Next]_vars

InitRun ==
    /\ RunInit /\ MfpIdle /\ ModIdle /\ RcvIdle
    /\ AvgIdle /\ BfIdle /\ GcIdle /\ ParIdle
NextRun == RunNext
SpecRun == InitRun /\ [][NextRun]_vars

InitModes ==
    /\ ModInit /\ MfpIdle /\ RunIdle /\ RcvIdle
    /\ AvgIdle /\ BfIdle /\ GcIdle /\ ParIdle
NextModes == ModNext
SpecModes == InitModes /\ [][NextModes]_vars

InitReceiver ==
    /\ RcvInit /\ MfpIdle /\ RunIdle /\ ModIdle
    /\ AvgIdle /\ BfIdle /\ GcIdle /\ ParIdle
NextReceiver == RcvNext
SpecReceiver == InitReceiver /\ [][NextReceiver]_vars

InitAverage ==
    /\ AvgInit /\ MfpIdle /\ RunIdle /\ ModIdle /\ RcvIdle
    /\ BfIdle /\ GcIdle /\ ParIdle
NextAverage == AvgNext
SpecAverage == InitAverage /\ [][NextAverage]_vars

InitBeamformer ==
    /\ BfInit /\ MfpIdle /\ RunIdle /\ ModIdle /\ RcvIdle
    /\ AvgIdle /\ GcIdle /\ ParIdle
NextBeamformer == BfNext
SpecBeamformer == InitBeamformer /\ [][NextBeamformer]_vars

InitCovariance ==
    /\ GcInit /\ MfpIdle /\ RunIdle /\ ModIdle /\ RcvIdle
    /\ AvgIdle /\ BfIdle /\ ParIdle
NextCovariance == GcNext
SpecCovariance == InitCovariance /\ [][NextCovariance]_vars

InitParams ==
    /\ ParInit /\ MfpIdle /\ RunIdle /\ ModIdle /\ RcvIdle
    /\ AvgIdle /\ BfIdle /\ GcIdle
NextParams == ParNext
SpecParams == InitParams /\ [][NextParams]_vars

(***************************************************************************)
(* Properties                                                              *)
(***************************************************************************)

\* The parameters the default formatter yields for frequency index i.
ExpectedArgs(i) == FormatParameters(freq[i], FormatTitle(freq[i]), fixed, search)

\* C1: the i-th collected response is the beamformer applied with covariance
\* matrix i to the replica the runner produced from frequency i's formatted
\* parameters, whatever the order in which the tasks started and ended.
C1_ResponseMatchesIndex ==
    \A i \in 1..Len(bf_response) :
        bf_response[i] = Beamformer(cov[i], Runner(ExpectedArgs(i)))

\* C1 witness: both responses of a two-frequency call are collected, they
\* differ, and the second task ended before the first.
C1_Witness ==
    /\ Len(freq) = 2
    /\ Len(bf_response) = 2
    /\ bf_response[1] # bf_response[2]
    /\ finish_order = <<2, 1>>

\* C2 (as claimed): while a run's solver is in flight, the child was started
\* in the run's own temporary directory and the process working directory is
\* still that directory.
C2_SolverRunsInOwnTmpdir ==
    \A r \in Runs :
        run[r].pc = "solving" =>
            /\ run[r].childcwd = run[r].envdir
            /\ cwd = run[r].envdir

\* C3 (as claimed): two solver invocations in flight at the same time carry
\* different run titles, hence different .env/.mod/.prt paths.
C3_InFlightTitlesDiffer ==
    \A r1, r2 \in Runs :
        (r1 # r2 /\ run[r1].pc = "solving" /\ run[r2].pc = "solving") =>
            run[r1].title # run[r2].title

\* C4: the combiner step is taken only when every task of the call has
\* ended; it never starts while a task is pending or running.
C4_CombinerAfterJoin ==
    [][(pc' = "returned" /\ pc # "returned") =>
          \A i \in DOMAIN task : task[i].st \in Finished]_vars

\* C4 witness: a call of two frequencies has left the with-block and is
\* about to combine.
C4_Witness ==
    /\ pc = "combine"
    /\ Len(task) = 2
    /\ finish_order = <<2, 1>>

\* C5: at most max_workers tasks run at any time, and without an explicit
\* max_workers the limit is the number of configured frequencies.
C5_AtMostMaxWorkersRunning ==
    /\ mw_arg # 0 => RunningCount <= mw_arg
    /\ mw_arg = 0 => (max_workers = Len(freq) /\ RunningCount <= Len(freq))

\* C5 witness: the pool of one worker is busy while another task waits.
C5_Witness ==
    /\ mw_arg = 1
    /\ RunningCount = 1
    /\ \E i \in DOMAIN task : task[i].st = "pending"

\* C6 (as claimed): when an evaluate call has ended, the runner was invoked
\* exactly once for every configured frequency.
C6_EveryFrequencyRanOnce ==
    pc \in {"returned", "raised"} => \A i \in Idx : runs[i] = 1

\* C6 (amended): one future per configured frequency is submitted by every
\* call, no runner is invoked more than once per call, and a call that
\* returns has invoked the runner exactly once per frequency with the
\* parameters of this call; a call that raises leaves the runner of every
\* cancelled task uninvoked.
C6_OneTaskPerFrequency ==
    /\ pc # "idle" => DOMAIN task = Idx
    /\ \A i \in DOMAIN runs : runs[i] <= 1
    /\ pc \in {"combine", "returned"} =>
          /\ \A i \in Idx : runs[i] = 1 /\ task[i].replica = Runner(ExpectedArgs(i))
          /\ Len(bf_response) = Len(freq)
    /\ \A i \in DOMAIN task : task[i].st = "cancelled" => (runs[i] = 0 /\ error # 0)

\* C6 witness: a second evaluate call has returned.
C6_Witness ==
    /\ ncalls = 2
    /\ pc = "returned"
    /\ Len(freq) = 2

\* The value a key has when the layers are applied in the order fixed,
\* frequency/title, search.
LayeredValue(i, k) ==
    IF k \in DOMAIN search THEN search[k]
    ELSE IF k = "freq" THEN freq[i]
    ELSE IF k = "title" THEN FormatTitle(freq[i])
    ELSE fixed[k]

RECURSIVE SumUpTo(_)
SumUpTo(n) == IF n = 0 THEN 0 ELSE SumUpTo(n - 1) + bf_response[n]

RECURSIVE ProdUpTo(_)
ProdUpTo(n) == IF n = 0 THEN 1 ELSE ProdUpTo(n - 1) * bf_response[n]

\* C8: the returned value is the mean, the sum or the product of the
\* per-frequency responses, as configured; responses 3 and 5 give 4, 8, 15.
C8_Combination ==
    pc = "returned" =>
        /\ method = "mean" =>
              /\ result.den # 0
              /\ result.num * Len(freq) = result.den * SumUpTo(Len(freq))
        /\ method = "sum" =>
              (result.den = 1 /\ result.num = SumUpTo(Len(freq)))
        /\ method = "product" =>
              (result.den = 1 /\ result.num = ProdUpTo(Len(freq)))
        /\ bf_response = <<3, 5>> =>
              /\ method = "mean" => result.num = 4 * result.den
              /\ method = "sum" => result.num = 8 * result.den
              /\ method = "product" => result.num = 15 * result.den

\* C8 witness: the mean of the responses 3 and 5 has been returned.
C8_Witness ==
    /\ pc = "returned"
    /\ method = "mean"
    /\ bf_response = <<3, 5>>

\* C9: once a task has raised, the call returns no combined response; it
\* ends by raising the error of the first failed task in submission order,
\* and no runner is invoked a second time.
C9_ErrorPropagates ==
    /\ (\E i \in DOMAIN task : task[i].st = "raised") =>
          (pc \notin {"combine", "returned"} /\ result = NoResult)
    /\ pc \in {"unwind", "raised"} =>
          /\ error \in DOMAIN task
          /\ task[error].st = "raised"
          /\ \A j \in 1..(error - 1) : task[j].st = "done"
          /\ result = NoResult
    /\ \A i \in DOMAIN runs : runs[i] <= 1

\* C9 witness: the call has raised although another task produced a
\* response.
C9_Witness ==
    /\ pc = "raised"
    /\ \E i \in DOMAIN task : task[i].st = "done"

\* Index (0-based) of the table entry nearest to the requested frequency.
TargetIndex == ArgMinDiff(modfile.freqs, req)

\* C10 (as claimed): when the scan ends, the record pointer is at the block
\* of the table entry nearest to the requested frequency, having advanced
\* by the stride of every entry before it.
C10_ScanLandsOnTarget ==
    rd.pc = "halfspace" =>
        /\ rd.iRecProfile = BlockBase(modfile, TargetIndex)
        /\ rd.M = modfile.M[TargetIndex + 1]

\* C11 (as claimed): the frequency index the reader selects is that of the
\* entry with the minimum absolute difference to the requested frequency
\* among all nfreq entries of the table, the end entries included for
\* requests outside the table.
C11_SelectsNearestOfTable ==
    rd.pc \in {"scan", "halfspace", "modes", "format", "returned"} =>
        rd.freq_index = TargetIndex

\* C12 (as claimed): with a mode count of 0 at the selected frequency the
\* read returns, raising nothing, with empty eigenfunctions and wavenumbers.
C12_ZeroModesReturn ==
    (rd.M = 0 /\ rd.pc \in {"returned", "raised"}) =>
        (rd.pc = "returned" /\ rd.phi = <<>> /\ rd.k = <<>>)

\* C13: a negative ntot in the header ends the read at once: nothing is
\* raised and no record after the header is read; no other header does so.
C13_NoModesEndsRead ==
    /\ (modfile.ntot < 0 /\ rd.pc # "start") =>
          (rd.pc = "nomodes" /\ rd.reads = 1 /\ rd.err = "none")
    /\ rd.pc = "nomodes" => modfile.ntot < 0

\* C13 witness: the read of a file with negative ntot has ended.
C13_Witness ==
    /\ modfile.ntot < 0
    /\ rd.pc = "nomodes"

\* Columns of an eigenfunction matrix held row by row.
NumCols(phi) == IF Len(phi) = 0 THEN 0 ELSE Len(phi[1])

\* The mode subset of the call: the argument, or all modes of the entry.
RequestedModes == IF modes.given THEN modes.idx ELSE DefaultModes(rd.M)

\* C14: when read_modes has returned, there are as many wavenumbers as
\* eigenfunction columns, and as many as requested mode indices.
C14_CountsAgree ==
    rd.pc = "returned" =>
        /\ Len(rd.k) = NumCols(rd.phi)
        /\ NumCols(rd.phi) = Len(RequestedModes)

\* C14 witness: a returned read of three requested modes, one of them
\* twice, out of ten.
C14_Witness ==
    /\ rd.pc = "returned"
    /\ modes.given
    /\ modes.idx = <<2, 2, 0>>
    /\ rd.M = 10
    /\ Len(rd.k) = 3

\* Entry (0-based) the reader stands at.
ReadEntry == EntryOf(modfile, rd.iRecProfile)

\* C15: column j of the eigenfunctions is the deinterleaved record
\* iRecProfile + 2 + subset[j], wavenumber j is pair subset[j] of the 2 * M
\* floats of record iRecProfile + 2 + M, and both are what the solver wrote
\* for mode subset[j] of the entry being read.
C15_ColumnAndWavenumberOfSameMode ==
    (rd.pc \in {"format", "returned"} /\ rd.M > 0) =>
        \A j \in 1..Len(rd.modes) :
            LET m == rd.modes[j]
                col == RecordFloats(modfile, rd.iRecProfile + 2 + m)
                wav == RecordFloats(modfile, rd.iRecProfile + 2 + rd.M)
            IN  /\ Len(wav) = 2 * rd.M
                /\ \A r \in 1..rd.nmat :
                      /\ rd.phi[r][j] = [re |-> col[2 * r - 1], im |-> col[2 * r]]
                      /\ rd.phi[r][j].re = EigenFloat(ReadEntry, m, 2 * r - 1)
                      /\ rd.phi[r][j].im = EigenFloat(ReadEntry, m, 2 * r)
                /\ rd.k[j] = [re |-> wav[2 * m + 1], im |-> wav[2 * m + 2]]
                /\ rd.k[j].re = WaveFloat(ReadEntry, 2 * m + 1)
                /\ rd.k[j].im = WaveFloat(ReadEntry, 2 * m + 2)

\* C15 witness: modes 3 and 1 were requested, in this order, and read.
C15_Witness ==
    /\ rd.pc = "returned"
    /\ rd.modes = <<3, 1>>
    /\ rd.k[1].re = WaveFloat(0, 7)
    /\ rd.phi[1][2].re = EigenFloat(0, 1, 1)

\* C16 (as claimed): in both halfspaces the compressional and the shear
\* speed are (first float) + i * (second float) of their pair.
C16_ShearDecodedLikeCompressional ==
    rd.pc \in {"modes", "format", "returned"} =>
        LET fl == HalfspaceRecord(ReadEntry) IN
            /\ rd.top.alphaR = fl[2] /\ rd.top.alphaI = fl[3]
            /\ rd.top.betaR = fl[4] /\ rd.top.betaI = fl[5]
            /\ rd.bottom.alphaR = fl[9] /\ rd.bottom.alphaI = fl[10]
            /\ rd.bottom.betaR = fl[11] /\ rd.bottom.betaI = fl[12]

\* C17 (as claimed): the range vector of a constructed Receiver holds no 0.
C17_NoZeroRange ==
    rcv.pc = "built" => \A i \in 1..Len(rcv.r) : rcv.r[i] # 0

\* What the claim expects of a constructed Receiver: a leading 0 is dropped
\* and nothing else changes.
FirstZeroDropped ==
    IF rcv.r_in[1] = 0
    THEN rcv.r = Tail(rcv.r_in) /\ rcv.nr = Len(rcv.r_in) - 1
    ELSE rcv.r = rcv.r_in /\ rcv.nr = Len(rcv.r_in)

\* C18 (as claimed): every construction from a non-empty range vector ends
\* with the leading 0 dropped, or with the vector unchanged.
C18_FirstZeroRemoved ==
    (rcv.pc # "new" /\ Len(rcv.r_in) > 0) =>
        (rcv.pc = "built" /\ FirstZeroDropped)

\* C18 (amended): the same, except that the construction from the vector
\* holding a single 0 raises.
C18_FirstZeroRemovedIfMoreFollow ==
    (rcv.pc # "new" /\ Len(rcv.r_in) > 0) =>
        IF rcv.r_in = <<0>>
        THEN rcv.pc = "raised"
        ELSE rcv.pc = "built" /\ FirstZeroDropped

\* C18 witness: a Receiver built from three ranges, the first of them 0.
C18_Witness ==
    /\ rcv.pc = "built"
    /\ rcv.r_in = <<0, 500, 1500>>
    /\ rcv.r = <<500, 1500>>
    /\ rcv.nr = 2

\* Mesh row (1-based) closest to depth d, the first one among equals.
NearestRow(d) ==
    CHOOSE s \in 1..Len(rd.z) :
        /\ \A t \in 1..Len(rd.z) : Abs(rd.z[s] - d) <= Abs(rd.z[t] - d)
        /\ \A t \in 1..(s - 1) : Abs(rd.z[t] - d) > Abs(rd.z[s] - d)

\* C19: after the projection of a single source depth, phi_rec is the whole
\* eigenfunction matrix when that depth is among the receiver depths, and
\* otherwise the matrix without the row matched to the source, in order.
C19_ReceiverRows ==
    rd.pc = "returned" =>
        IF \E i \in 1..Len(receiver) : receiver[i] = source[1]
        THEN rd.phi_rec = rd.phi /\ Len(rd.phi_rec) = rd.nmat
        ELSE /\ Len(rd.phi_rec) = rd.nmat - 1
             /\ \A i \in 1..(rd.nmat - 1) :
                   rd.phi_rec[i] = IF i < NearestRow(source[1])
                                   THEN rd.phi[i] ELSE rd.phi[i + 1]

\* C19 witness: the source lies off the mesh and off the receivers, and the
\* last mesh row was taken out.
C19_Witness ==
    /\ rd.pc = "returned"
    /\ source = <<26000>>
    /\ Len(rd.modes) = 2
    /\ rd.phi_rec = <<rd.phi[1], rd.phi[2], rd.phi[3]>>

\* C20 (as claimed): the projection of a non-empty mode set with as many
\* rows as mesh depths ends with one row of phi_src per source depth, the
\* row of the mesh depth closest to it.
C20_OneRowPerSourceDepth ==
    (/\ rd.pc = "returned" \/ (rd.pc = "raised" /\ rd.err = "format")
     /\ rd.M > 0
     /\ Len(rd.z) = rd.nmat) =>
        /\ rd.pc = "returned"
        /\ Len(rd.phi_src) = Len(source)
        /\ \A i \in 1..Len(source) :
              rd.phi_src[i] = rd.phi[NearestRow(source[i])]


CeilDiv(N, k) == (N + k - 1) \div k

\* C21: average_covariance with averaging factor k on N matrices returns
\* ceil(N/k) matrices, each the average of one contiguous block of the input,
\* the blocks together covering all N inputs in order.
C21_CeilOfBlocks ==
    avg.pc \in {"returned", "raised"} =>
        /\ avg.pc = "returned"
        /\ Len(avg.out) = CeilDiv(Len(avg.K), avg.covariance_averaging)
        /\ avg.out[1].lo = 1
        /\ avg.out[Len(avg.out)].hi = Len(avg.K)
        /\ \A i \in 1..Len(avg.out) :
              /\ avg.out[i].lo <= avg.out[i].hi
              /\ i > 1 => avg.out[i].lo = avg.out[i - 1].hi + 1
              /\ avg.out[i].sum = SeqSum(SubSeq(avg.K, avg.out[i].lo, avg.out[i].hi))
              /\ avg.out[i].count = avg.out[i].hi - avg.out[i].lo + 1


\* The response of a beamformer call had the estimator been given Kin.
ResponseFor(Kin) ==
    LET e == Estimate(bf.evaluated, Kin, <<>>, "inverse").B
    IN  IF bf.abs_value THEN AbsValue(e) ELSE e

\* C22: beamformer enforces Hermitian symmetry on the covariance before the
\* estimator is evaluated: the response equals the estimator applied to
\* (K + K^H)/2. Stated for the estimators whose value does not depend on an
\* eigendecomposition, and for calls where (K + K^H)/2 is invertible.
C22_HermitianEnforced ==
    (/\ bf.pc \in {"returned", "raised"}
     /\ bf.evaluated \in {"cbf", "cbf_ml", "cbf_ml2", "mvdr"}
     /\ Det(EnforceHermitian(bf.K)) # 0)
        => /\ bf.pc = "returned"
           /\ bf.B = ResponseFor(EnforceHermitian(bf.K))

\* C23: the MUSIC estimator discards exactly the num_src eigenvectors that
\* belong to the num_src largest eigenvalues of K, in whatever order eig
\* returned the eigenpairs, and projects onto the remaining M - num_src.
C23_LargestDiscarded ==
    (bf.pc = "returned" /\ bf.evaluated = "music") =>
        LET kept == { bf.eig[j] : j \in KeptColumns(bf.num_src) }
            discarded == Eigenvalues(bf.K) \ kept
        IN  /\ Cardinality(discarded) = bf.num_src
            /\ Cardinality(kept) = NumChannels - bf.num_src
            /\ \A x \in discarded, y \in kept : x > y

\* C24 as stated: an unsupported type string fails with an error whose
\* message contains the offending string, and no estimator is evaluated.
C24_MessageNamesType ==
    (bf.pc \in {"returned", "raised"} /\ bf.atype \notin SupportedTypes) =>
        /\ bf.pc = "raised"
        /\ bf.evaluated = "none"
        /\ \E i \in DOMAIN bf.msg : bf.msg[i] = bf.atype

\* C24: an unsupported type string fails with a TypeError carrying the fixed
\* message "Beamformer 'atype' not implemented.", and no estimator is
\* evaluated.
C24_FixedMessage ==
    (bf.pc \in {"returned", "raised"} /\ bf.atype \notin SupportedTypes) =>
        /\ bf.pc = "raised"
        /\ bf.exc = "TypeError"
        /\ bf.msg = NotImplementedMessage
        /\ bf.evaluated = "none"
        /\ bf.B = NoValue("unset")

C24_Witness ==
    /\ bf.pc = "raised" /\ bf.atype = "bartlett" /\ bf.msg = NotImplementedMessage

\* C25: the MVDR estimator called with a singular covariance matrix raises a
\* numeric error and never returns a response value for such a matrix.
C25_SingularRaises ==
    (/\ bf.pc \in {"returned", "raised"}
     /\ bf.evaluated = "mvdr"
     /\ Det(bf.K) = 0)
        => bf.pc = "raised" /\ bf.exc = "LinAlgError"


\* C26: if the solver exits with a non-zero code or cannot be executed, run
\* fails at that point: it does not go on to parse a mode file as if the run
\* had succeeded.
C26_FailsAtSolver ==
    \A r \in Runs : run[r].retcode # ExitOk => run[r].pc \notin {"read", "done"}

\* The positions of a run between the entry and the exit of
\* _working_directory.
InsideWorkingDirectory == {"saved", "indir", "solving", "exited"}

\* C28: once every solver invocation that was started has returned, the
\* process working directory is the directory that was current before the
\* first of them started, under every interleaving.
C28_CwdRestored ==
    (\A r \in Runs : run[r].pc \notin InsideWorkingDirectory) => cwd = LaunchDir

\* C30: with keep_files=False, once run has ended, normally or by raising, no
\* .env, .mod or .prt file with the run's title remains in the temporary
\* directory.
C30_NoFilesRemain ==
    \A r \in Runs :
        (run[r].pc \in {"done", "raised"} /\ run[r].envdir # NoDir) =>
            \A e \in Extensions : <<run[r].envdir, run[r].title, e>> \notin files


\* C29: get_covariance leaves its input pressure array unchanged for both
\* settings of normalize, so the pressure data the Processor saves afterwards
\* is the un-normalized data.
C29_PressureUnchanged ==
    /\ gc.pc \in {"covariance", "saved"} => gc.p = gc.p0
    /\ gc.pc = "saved" => gc.saved = gc.p0


\* The parameters a task of frequency f is due, by content: the layers built
\* from the fixed and search parameters as they were before any runner ran.
ParExpected(f) ==
    FormatParameters(f, FormatTitle(f), par.stored0, par.caller0)

\* C27: a runner that mutates the dictionary it receives, at the top level
\* or inside nested mutable values, changes neither the stored fixed
\* parameters, nor the caller's search dictionary, nor the parameters of any
\* other frequency's task of the same or a later evaluate call.
C27_RunnerMutationIsolated ==
    par.pc = "evaluating" =>
        /\ Deref(par.stored, par.heap) = par.stored0
        /\ Deref(par.caller, par.heap) = par.caller0
        /\ \A i \in DOMAIN par.tasks :
              ~par.tasks[i].touched =>
                  Deref(par.tasks[i].parameters, par.heap) = ParExpected(par.tasks[i].f)

====
